---- MODULE Spec2Model ----
(***************************************************************************)
(* Mini - a tiny terminal text editor (src/mini.py).                       *)
(*                                                                         *)
(* The model is the Editor object (lines, cx, cy, rowoff, coloff, status,  *)
(* _loaded_mtime), the file it edits, and the position of Editor.run in    *)
(* its event loop: before draw ("draw"), blocked in getch ("getch"),       *)
(* blocked in the getch of _prompt ("prompt"), or returned ("done").       *)
(* A text is a sequence of one-character strings; rows and columns are     *)
(* 0-based as in the source, so row y is lines[y + 1].                     *)
(***************************************************************************)
EXTENDS Integers, Sequences, FiniteSets, TLC

VARIABLES
    lines,          \* Editor.lines: the buffer, a sequence of texts
    cx,             \* Editor.cx: cursor column
    cy,             \* Editor.cy: cursor row
    rowoff,         \* Editor.rowoff
    coloff,         \* Editor.coloff
    msg,            \* Editor.status.msg
    dirty,          \* Editor.status.dirty
    loaded_mtime,   \* Editor._loaded_mtime
    disk,           \* the file at Editor.path
    pc,             \* position of Editor.run
    key,            \* k of Editor.run: the key of the iteration in progress
    buf,            \* buf of Editor._prompt
    ans,            \* the value _prompt returned in this iteration
    io,             \* outcome of the write attempted in this iteration
    text_h,         \* text_h handed to _scroll by the last draw
    text_w,         \* w - 1 handed to _scroll by the last draw
    start,          \* (start_y, start_x) of the find of this iteration
    saved           \* history: the buffer at the last successful load or save

editor == <<lines, cx, cy, msg, dirty>>
view   == <<rowoff, coloff, text_h, text_w>>
store  == <<disk, loaded_mtime, saved>>
vars   == <<lines, cx, cy, rowoff, coloff, msg, dirty, loaded_mtime, disk,
           pc, key, buf, ans, io, text_h, text_w, start, saved>>

----------------------------------------------------------------------------
(* Bounds of the model.                                                    *)

MaxSize  == 3     \* nothing is typed into a buffer of MaxSize lines and characters
MaxBuf   == 1     \* a character is not typed into a prompt of MaxBuf characters
MaxQuery == 3     \* the same, where only searches are typed
MaxNumber == 2    \* the same, where only line numbers are typed
MaxFile  == 3     \* the longest file of the load/save round trips
MaxAnswer == 2    \* the same, where only exit confirmations are typed
MaxLines == 4     \* Enter is not typed into a buffer of MaxLines lines, where files are edited
MaxText  == 6     \* a character is not typed into a buffer of MaxText lines and characters, where files are edited

----------------------------------------------------------------------------
(* Python helpers.                                                         *)

Min(a, b) == IF a < b THEN a ELSE b
Max(a, b) == IF a > b THEN a ELSE b

\* s[:n] and s[n:] for n >= 0
Take(s, n) == SubSeq(s, 1, Min(n, Len(s)))
Drop(s, n) == SubSeq(s, Min(n, Len(s)) + 1, Len(s))

RECURSIVE TotalLen(_)
TotalLen(ls) == IF ls = <<>> THEN 0 ELSE Len(Head(ls)) + TotalLen(Tail(ls))

\* lines plus characters of a buffer
Size(ls) == Len(ls) + TotalLen(ls)

RECURSIVE SeqsUpTo(_, _)
SeqsUpTo(S, n) ==
    IF n = 0 THEN {<<>>}
    ELSE LET shorter == SeqsUpTo(S, n - 1)
         IN  shorter \cup {Append(s, c) : s \in shorter, c \in S}

\* Status.msg: a fixed text, or f"Line {n}"
Status(t) == [text |-> t, n |-> 0]
LineStatus(n) == [text |-> "Line", n |-> n]

Line(y) == lines[y + 1]

----------------------------------------------------------------------------
(* The file store: open/read/splitlines of _load, join/write of save.      *)

NoFile     == [kind |-> "missing", data |-> <<>>]
Unreadable == [kind |-> "unreadable", data |-> <<>>]
File(data) == [kind |-> "file", data |-> data]

\* open(path, "r") reads in text mode with newline=None: "\r\n" and "\r"
\* arrive as "\n".
RECURSIVE UniversalNewlines(_)
UniversalNewlines(data) ==
    IF data = <<>> THEN <<>>
    ELSE IF Head(data) = "\r" /\ Len(data) >= 2 /\ data[2] = "\n"
         THEN <<"\n">> \o UniversalNewlines(Drop(data, 2))
    ELSE IF Head(data) = "\r"
         THEN <<"\n">> \o UniversalNewlines(Tail(data))
    ELSE <<Head(data)>> \o UniversalNewlines(Tail(data))

\* The line boundaries of str.splitlines that the model's alphabets hold
\* (Python also splits at \v, \x1c, \x1d, \x1e, \x85, \u2028, \u2029).
LineBreaks == {"\n", "\r", "\f"}

\* str.splitlines(): split at every line boundary ("\r\n" is one), the
\* boundaries dropped, no empty last line after a final boundary.
RECURSIVE SplitFrom(_, _)
SplitFrom(text, cur) ==
    IF text = <<>> THEN (IF cur = <<>> THEN <<>> ELSE <<cur>>)
    ELSE IF Head(text) = "\r" /\ Len(text) >= 2 /\ text[2] = "\n"
         THEN <<cur>> \o SplitFrom(Drop(text, 2), <<>>)
    ELSE IF Head(text) \in LineBreaks
         THEN <<cur>> \o SplitFrom(Tail(text), <<>>)
    ELSE SplitFrom(Tail(text), Append(cur, Head(text)))

splitlines(text) == SplitFrom(text, <<>>)

\* "\n".join(lines)
RECURSIVE Join(_)
Join(ls) ==
    IF ls = <<>> THEN <<>>
    ELSE IF Len(ls) = 1 THEN Head(ls)
    ELSE Head(ls) \o <<"\n">> \o Join(Tail(ls))

\* fmt_mtime(path): the formatted modification time, "N/A" when getmtime
\* raises.
fmt_mtime(d) == IF d.kind = "missing" THEN "N/A" ELSE "mtime"

\* _load without "if data else [""]"
LoadedLinesNoDefault(d) ==
    IF d.kind = "file" THEN splitlines(UniversalNewlines(d.data)) ELSE << <<>> >>

\* Editor._load: the values of lines, status.msg and _loaded_mtime for a file.
LoadedLines(d) ==
    IF d.kind = "file"
    THEN LET data == splitlines(UniversalNewlines(d.data))
         IN  IF data # <<>> THEN data ELSE << <<>> >>
    ELSE << <<>> >>

LoadedMsg(d) ==
    IF d.kind = "file" THEN Status("Opened")
    ELSE IF d.kind = "missing" THEN Status("New file")
    ELSE Status("Error loading")

LoadedMtime(d) == IF d.kind = "file" THEN fmt_mtime(d) ELSE "N/A"

\* Editor.save. The write succeeds ("ok"), or raises before the file is
\* opened for writing ("open_failed": makedirs or open), or raises after
\* open(path, "w") has truncated it ("write_failed").
WriteOutcomes == {"ok", "open_failed", "write_failed"}

save(outcome) ==
    /\ io' = outcome
    /\ IF outcome = "ok"
       THEN /\ disk' = File(Join(lines) \o <<"\n">>)
            /\ msg' = Status("Wrote file")
            /\ dirty' = FALSE
            /\ loaded_mtime' = fmt_mtime(disk')
            /\ saved' = lines
       ELSE /\ disk' = IF outcome = "write_failed" THEN File(<<>>) ELSE disk
            /\ msg' = Status("Write error")
            /\ UNCHANGED <<dirty, loaded_mtime, saved>>
    /\ UNCHANGED <<lines, cx, cy>>

----------------------------------------------------------------------------
(* Editing.                                                                *)

\* Editor._clamp_cursor, as the values it assigns
ClampedY == Max(0, Min(cy, Len(lines) - 1))
ClampedX == Max(0, Min(cx, Len(Line(ClampedY))))

insert_char(ch) ==
    LET s == Line(cy)
    IN  /\ lines' = [lines EXCEPT ![cy + 1] = Take(s, cx) \o <<ch>> \o Drop(s, cx)]
        /\ cx' = cx + 1
        /\ dirty' = TRUE
        /\ UNCHANGED <<cy, msg>>

\* list.insert(i, x)
ListInsert(ls, i, x) == Take(ls, i) \o <<x>> \o Drop(ls, i)
\* del list[i]
ListDel(ls, i) == Take(ls, i) \o Drop(ls, i + 1)

\* insert_newline that puts the new line above the current one
insert_newlineAbove ==
    LET s     == Line(cy)
        left  == Take(s, cx)
        right == Drop(s, cx)
    IN  /\ lines' = ListInsert([lines EXCEPT ![cy + 1] = left], cy, right)
        /\ cy' = cy + 1
        /\ cx' = 0
        /\ dirty' = TRUE
        /\ UNCHANGED msg

insert_newline ==
    LET s     == Line(cy)
        left  == Take(s, cx)
        right == Drop(s, cx)
    IN  /\ lines' = ListInsert([lines EXCEPT ![cy + 1] = left], cy + 1, right)
        /\ cy' = cy + 1
        /\ cx' = 0
        /\ dirty' = TRUE
        /\ UNCHANGED msg

\* backspace that leaves the cursor in column 0 after joining two lines
backspaceJoinHome ==
    IF cx > 0
    THEN LET s == Line(cy)
         IN  /\ lines' = [lines EXCEPT ![cy + 1] = Take(s, cx - 1) \o Drop(s, cx)]
             /\ cx' = cx - 1
             /\ dirty' = TRUE
             /\ UNCHANGED <<cy, msg>>
    ELSE IF cy > 0
    THEN LET prev == Line(cy - 1)
             cur  == Line(cy)
         IN  /\ cx' = 0
             /\ lines' = ListDel([lines EXCEPT ![cy] = prev \o cur], cy)
             /\ cy' = cy - 1
             /\ dirty' = TRUE
             /\ UNCHANGED msg
    ELSE UNCHANGED <<lines, cx, cy, dirty, msg>>

\* backspace that does nothing at the start of any line
backspaceNoJoin ==
    IF cx > 0
    THEN LET s == Line(cy)
         IN  /\ lines' = [lines EXCEPT ![cy + 1] = Take(s, cx - 1) \o Drop(s, cx)]
             /\ cx' = cx - 1
             /\ dirty' = TRUE
             /\ UNCHANGED <<cy, msg>>
    ELSE UNCHANGED <<lines, cx, cy, dirty, msg>>

backspace ==
    IF cx > 0
    THEN LET s == Line(cy)
         IN  /\ lines' = [lines EXCEPT ![cy + 1] = Take(s, cx - 1) \o Drop(s, cx)]
             /\ cx' = cx - 1
             /\ dirty' = TRUE
             /\ UNCHANGED <<cy, msg>>
    ELSE IF cy > 0
    THEN LET prev == Line(cy - 1)
             cur  == Line(cy)
         IN  /\ cx' = Len(prev)
             /\ lines' = ListDel([lines EXCEPT ![cy] = prev \o cur], cy)
             /\ cy' = cy - 1
             /\ dirty' = TRUE
             /\ UNCHANGED msg
    ELSE UNCHANGED <<lines, cx, cy, dirty, msg>>

\* delete whose join of two lines leaves the dirty flag alone
deleteJoinClean ==
    LET s == Line(cy)
    IN  IF cx < Len(s)
        THEN /\ lines' = [lines EXCEPT ![cy + 1] = Take(s, cx) \o Drop(s, cx + 1)]
             /\ dirty' = TRUE
             /\ UNCHANGED <<cx, cy, msg>>
        ELSE IF cy < Len(lines) - 1
        THEN /\ lines' = ListDel([lines EXCEPT ![cy + 1] = s \o Line(cy + 1)], cy + 1)
             /\ UNCHANGED <<cx, cy, msg, dirty>>
        ELSE UNCHANGED <<lines, cx, cy, dirty, msg>>

delete ==
    LET s == Line(cy)
    IN  IF cx < Len(s)
        THEN /\ lines' = [lines EXCEPT ![cy + 1] = Take(s, cx) \o Drop(s, cx + 1)]
             /\ dirty' = TRUE
             /\ UNCHANGED <<cx, cy, msg>>
        ELSE IF cy < Len(lines) - 1
        THEN /\ lines' = ListDel([lines EXCEPT ![cy + 1] = s \o Line(cy + 1)], cy + 1)
             /\ dirty' = TRUE
             /\ UNCHANGED <<cx, cy, msg>>
        ELSE UNCHANGED <<lines, cx, cy, dirty, msg>>

----------------------------------------------------------------------------
(* Movement.                                                               *)

left ==
    /\ IF cx > 0 THEN cx' = cx - 1 /\ cy' = cy
       ELSE IF cy > 0 THEN cy' = cy - 1 /\ cx' = Len(Line(cy - 1))
       ELSE UNCHANGED <<cx, cy>>
    /\ UNCHANGED <<lines, dirty, msg>>

right ==
    /\ IF cx < Len(Line(cy)) THEN cx' = cx + 1 /\ cy' = cy
       ELSE IF cy < Len(lines) - 1 THEN cy' = cy + 1 /\ cx' = 0
       ELSE UNCHANGED <<cx, cy>>
    /\ UNCHANGED <<lines, dirty, msg>>

\* up that keeps the column
upKeepsColumn ==
    /\ IF cy > 0
       THEN cy' = cy - 1 /\ cx' = cx
       ELSE UNCHANGED <<cx, cy>>
    /\ UNCHANGED <<lines, dirty, msg>>

up ==
    /\ IF cy > 0
       THEN cy' = cy - 1 /\ cx' = Min(cx, Len(Line(cy - 1)))
       ELSE UNCHANGED <<cx, cy>>
    /\ UNCHANGED <<lines, dirty, msg>>

\* down that keeps the column
downKeepsColumn ==
    /\ IF cy < Len(lines) - 1
       THEN cy' = cy + 1 /\ cx' = cx
       ELSE UNCHANGED <<cx, cy>>
    /\ UNCHANGED <<lines, dirty, msg>>

down ==
    /\ IF cy < Len(lines) - 1
       THEN cy' = cy + 1 /\ cx' = Min(cx, Len(Line(cy + 1)))
       ELSE UNCHANGED <<cx, cy>>
    /\ UNCHANGED <<lines, dirty, msg>>

home ==
    /\ cx' = 0
    /\ UNCHANGED <<cy, lines, dirty, msg>>

end ==
    /\ cx' = Len(Line(cy))
    /\ UNCHANGED <<cy, lines, dirty, msg>>

page_up(n) ==
    /\ cy' = Max(0, cy - n)
    /\ cx' = Min(cx, Len(Line(cy')))
    /\ UNCHANGED <<lines, dirty, msg>>

page_down(n) ==
    /\ cy' = Min(Len(lines) - 1, cy + n)
    /\ cx' = Min(cx, Len(Line(cy')))
    /\ UNCHANGED <<lines, dirty, msg>>

----------------------------------------------------------------------------
(* Prompts: what _prompt returns, and the three callers' use of it.        *)

NoStart    == <<0, 0>>
NoAnswer   == [ret |-> "none", text |-> <<>>]
Cancelled  == [ret |-> "cancel", text |-> <<>>]     \* _prompt returned None
Entered(b) == [ret |-> "text", text |-> b]          \* _prompt returned buf

\* "if not q": None or the empty string
Falsy(a) == a.ret # "text" \/ a.text = <<>>

\* status.msg as _prompt leaves it
PromptMsg(a) == IF a.ret = "cancel" THEN Status("Cancelled") ELSE msg

\* str.lower() of one character, for the characters the model types
Lower(c) == IF c = "Y" THEN "y" ELSE IF c = "N" THEN "n" ELSE c

\* ans and ans.lower().startswith(c)
StartsWith(a, c) == ~Falsy(a) /\ Lower(a.text[1]) = c

\* str.find(q, x0): the lowest index >= x0 where q occurs in s, or -1
RECURSIVE StrFind(_, _, _)
StrFind(s, q, x0) ==
    IF x0 + Len(q) > Len(s) THEN -1
    ELSE IF SubSeq(s, x0 + 1, x0 + Len(q)) = q THEN x0
    ELSE StrFind(s, q, x0 + 1)

NotFound == [found |-> FALSE, y |-> 0, x |-> 0]

\* the inner loop starting every row of the first pass at start_x
RECURSIVE ScanRowsKeepColumn(_, _, _, _, _, _)
ScanRowsKeepColumn(y, hi, q, passno, start_y, start_x) ==
    IF y > hi THEN NotFound
    ELSE LET x0  == IF passno = 0 THEN start_x ELSE 0
             idx == StrFind(Line(y), q, x0)
         IN  IF idx # -1 THEN [found |-> TRUE, y |-> y, x |-> idx]
             ELSE ScanRowsKeepColumn(y + 1, hi, q, passno, start_y, start_x)

\* the inner loop of Editor.find over rows y..hi of one pass
RECURSIVE ScanRows(_, _, _, _, _, _)
ScanRows(y, hi, q, passno, start_y, start_x) ==
    IF y > hi THEN NotFound
    ELSE LET x0  == IF passno = 0 /\ y = start_y THEN start_x ELSE 0
             idx == StrFind(Line(y), q, x0)
         IN  IF idx # -1 THEN [found |-> TRUE, y |-> y, x |-> idx]
             ELSE ScanRows(y + 1, hi, q, passno, start_y, start_x)

\* the second pass stopping before the row where the search started
SearchWrapBeforeRow(q, start_y, start_x) ==
    LET pass0 == ScanRows(start_y, Len(lines) - 1, q, 0, start_y, start_x)
    IN  IF pass0.found THEN pass0
        ELSE ScanRows(0, start_y - 1, q, 1, start_y, start_x)

\* the two passes of Editor.find
Search(q, start_y, start_x) ==
    LET pass0 == ScanRows(start_y, Len(lines) - 1, q, 0, start_y, start_x)
    IN  IF pass0.found THEN pass0
        ELSE ScanRows(0, start_y, q, 1, start_y, start_x)

\* find that sends the cursor home when the prompt was cancelled
findCancelHome(q) ==
    /\ IF q.ret = "cancel"
       THEN msg' = PromptMsg(q) /\ cx' = 0 /\ cy' = 0 /\ UNCHANGED start
       ELSE IF Falsy(q)
       THEN msg' = PromptMsg(q) /\ UNCHANGED <<cx, cy, start>>
       ELSE LET r == Search(q.text, cy, cx)
            IN  /\ start' = <<cy, cx>>
                /\ IF r.found
                   THEN cy' = r.y /\ cx' = r.x /\ msg' = Status("Found")
                   ELSE msg' = Status("Not found") /\ UNCHANGED <<cx, cy>>
    /\ UNCHANGED <<lines, dirty>>

\* Editor.find, from the return of _prompt
find(q) ==
    /\ IF Falsy(q)
       THEN msg' = PromptMsg(q) /\ UNCHANGED <<cx, cy, start>>
       ELSE LET r == Search(q.text, cy, cx)
            IN  /\ start' = <<cy, cx>>
                /\ IF r.found
                   THEN cy' = r.y /\ cx' = r.x /\ msg' = Status("Found")
                   ELSE msg' = Status("Not found") /\ UNCHANGED <<cx, cy>>
    /\ UNCHANGED <<lines, dirty>>

\* int(s) for a typed string: surrounding blanks stripped, an optional
\* sign, then decimal digits with single underscores between digits.
Digits == <<"0", "1", "2", "3", "4", "5", "6", "7", "8", "9">>
DigitSet == {Digits[i] : i \in 1..Len(Digits)}
DigitVal(c) == (CHOOSE i \in 1..Len(Digits) : Digits[i] = c) - 1

RECURSIVE Strip(_)
Strip(s) ==
    IF s # <<>> /\ Head(s) = " " THEN Strip(Tail(s))
    ELSE IF s # <<>> /\ s[Len(s)] = " " THEN Strip(Take(s, Len(s) - 1))
    ELSE s

ValidDigits(b) ==
    /\ b # <<>>
    /\ \A i \in 1..Len(b) : b[i] \in DigitSet \cup {"_"}
    /\ b[1] # "_" /\ b[Len(b)] # "_"
    /\ \A i \in 1..(Len(b) - 1) : ~(b[i] = "_" /\ b[i + 1] = "_")

RECURSIVE Decimal(_, _)
Decimal(b, acc) ==
    IF b = <<>> THEN acc
    ELSE IF Head(b) = "_" THEN Decimal(Tail(b), acc)
    ELSE Decimal(Tail(b), 10 * acc + DigitVal(Head(b)))

\* [ok |-> FALSE] stands for ValueError
int(s) ==
    LET t      == Strip(s)
        signed == t # <<>> /\ Head(t) \in {"+", "-"}
        body   == IF signed THEN Tail(t) ELSE t
    IN  IF ValidDigits(body)
        THEN [ok |-> TRUE,
              val |-> IF Head(t) = "-" THEN 0 - Decimal(body, 0) ELSE Decimal(body, 0)]
        ELSE [ok |-> FALSE, val |-> 0]

\* goto_line that takes an input int() rejects for line 1
goto_lineInvalidTop(s) ==
    /\ IF Falsy(s)
       THEN msg' = PromptMsg(s) /\ UNCHANGED <<cx, cy>>
       ELSE LET parsed == int(s.text)
                n      == Max(1, parsed.val)
            IN  /\ cy' = Min(Len(lines) - 1, n - 1)
                /\ cx' = Min(cx, Len(Line(cy')))
                /\ msg' = IF parsed.ok THEN LineStatus(n) ELSE Status("Invalid number")
    /\ UNCHANGED <<lines, dirty>>

\* goto_line that keeps the column
goto_lineKeepColumn(s) ==
    /\ IF Falsy(s)
       THEN msg' = PromptMsg(s) /\ UNCHANGED <<cx, cy>>
       ELSE LET parsed == int(s.text)
                n      == Max(1, parsed.val)
            IN  IF parsed.ok
                THEN /\ cy' = Min(Len(lines) - 1, n - 1)
                     /\ cx' = cx
                     /\ msg' = LineStatus(n)
                ELSE msg' = Status("Invalid number") /\ UNCHANGED <<cx, cy>>
    /\ UNCHANGED <<lines, dirty>>

\* Editor.goto_line, from the return of _prompt
goto_line(s) ==
    /\ IF Falsy(s)
       THEN msg' = PromptMsg(s) /\ UNCHANGED <<cx, cy>>
       ELSE LET parsed == int(s.text)
                n      == Max(1, parsed.val)
            IN  IF parsed.ok
                THEN /\ cy' = Min(Len(lines) - 1, n - 1)
                     /\ cx' = Min(cx, Len(Line(cy')))
                     /\ msg' = LineStatus(n)
                ELSE msg' = Status("Invalid number") /\ UNCHANGED <<cx, cy>>
    /\ UNCHANGED <<lines, dirty>>

----------------------------------------------------------------------------
(* View.                                                                   *)

\* _scroll that brings a cursor below or right of the window to its first
\* row or column
scrollToFirst(th, tw) ==
    LET r1 == IF ClampedY < rowoff THEN ClampedY ELSE rowoff
        r2 == IF ClampedY >= r1 + th THEN ClampedY ELSE r1
        c1 == IF ClampedX < coloff THEN ClampedX ELSE coloff
        c2 == IF ClampedX >= c1 + tw THEN ClampedX ELSE c1
    IN  /\ cy' = ClampedY
        /\ cx' = ClampedX
        /\ rowoff' = r2
        /\ coloff' = c2

\* _scroll one short when the cursor is below or right of the window
scrollOffByOne(th, tw) ==
    LET r1 == IF ClampedY < rowoff THEN ClampedY ELSE rowoff
        r2 == IF ClampedY >= r1 + th THEN ClampedY - th ELSE r1
        c1 == IF ClampedX < coloff THEN ClampedX ELSE coloff
        c2 == IF ClampedX >= c1 + tw THEN ClampedX - tw ELSE c1
    IN  /\ cy' = ClampedY
        /\ cx' = ClampedX
        /\ rowoff' = r2
        /\ coloff' = c2

\* Editor._scroll
scroll(th, tw) ==
    LET r1 == IF ClampedY < rowoff THEN ClampedY ELSE rowoff
        r2 == IF ClampedY >= r1 + th THEN ClampedY - th + 1 ELSE r1
        c1 == IF ClampedX < coloff THEN ClampedX ELSE coloff
        c2 == IF ClampedX >= c1 + tw THEN ClampedX - tw + 1 ELSE c1
    IN  /\ cy' = ClampedY
        /\ cx' = ClampedX
        /\ rowoff' = r2
        /\ coloff' = c2

\* Editor.draw on a terminal of h rows and w columns: only _scroll changes
\* the editor. A new iteration of run starts here.
draw(h, w) ==
    /\ pc = "draw"
    /\ text_h' = Max(1, h - 2)
    /\ text_w' = w - 1
    /\ scroll(text_h', text_w')
    /\ pc' = "getch"
    /\ key' = "none"
    /\ ans' = NoAnswer
    /\ io' = "none"
    /\ start' = NoStart
    /\ UNCHANGED <<lines, msg, dirty, store, buf>>

Draw(Hs, Ws) == \E h \in Hs, w \in Ws : draw(h, w)

----------------------------------------------------------------------------
(* Editor.run: one action per key it dispatches on.                        *)

\* getch returned k and the handler ran to the "continue" of the loop
Handled(k) ==
    /\ pc = "getch"
    /\ key' = k
    /\ pc' = "draw"
    /\ UNCHANGED <<view, buf, ans, start>>

Plain(k) == Handled(k) /\ UNCHANGED <<store, io>>

KeyCtrlL == Plain("CTRL_L") /\ UNCHANGED editor

KeyCtrlO == \E outcome \in WriteOutcomes : Handled("CTRL_O") /\ save(outcome)

KeyUp    == Plain("KEY_UP") /\ up
KeyDown  == Plain("KEY_DOWN") /\ down
KeyLeft  == Plain("KEY_LEFT") /\ left
KeyRight == Plain("KEY_RIGHT") /\ right
KeyHome  == Plain("KEY_HOME") /\ home
KeyEnd   == Plain("KEY_END") /\ end

KeyNPage(Hs) == \E h \in Hs : Plain("KEY_NPAGE") /\ page_down(Max(1, h - 2))
KeyPPage(Hs) == \E h \in Hs : Plain("KEY_PPAGE") /\ page_up(Max(1, h - 2))

KeyEnter ==
    /\ Size(lines) < MaxSize
    /\ Plain("ENTER") /\ insert_newline

\* Enter, typed into buffers of fewer than n lines
KeyEnterUpTo(n) ==
    /\ Len(lines) < n
    /\ Plain("ENTER") /\ insert_newline

KeyBackspace == Plain("KEY_BACKSPACE") /\ backspace
KeyDC        == Plain("KEY_DC") /\ delete

KeyChar(Cs) ==
    \E ch \in Cs :
        /\ Size(lines) < MaxSize
        /\ Plain(ch) /\ insert_char(ch)

\* a printable key, typed into buffers of fewer than n lines and characters
KeyCharUpTo(Cs, n) ==
    \E ch \in Cs :
        /\ Size(lines) < n
        /\ Plain(ch) /\ insert_char(ch)

\* any key run does not handle
KeyOther == Plain("other") /\ UNCHANGED editor

\* a handler that opens a prompt: _prompt starts with an empty buf
Prompting(k) ==
    /\ pc = "getch"
    /\ key' = k
    /\ pc' = "prompt"
    /\ buf' = <<>>
    /\ UNCHANGED <<editor, view, store, ans, io, start>>

KeyCtrlF == Prompting("CTRL_F")
KeyCtrlG == Prompting("CTRL_G")

\* Ctrl+X: _confirm_exit returns True at once when the buffer is clean
KeyCtrlX ==
    IF dirty THEN Prompting("CTRL_X")
    ELSE /\ pc = "getch"
         /\ key' = "CTRL_X"
         /\ pc' = "done"
         /\ UNCHANGED <<editor, view, store, buf, ans, io, start>>

\* _prompt: a printable key, appended to buf
PromptType(alphabet, cap) ==
    /\ pc = "prompt"
    /\ Len(buf) < cap
    /\ \E ch \in alphabet[key] : buf' = Append(buf, ch)
    /\ UNCHANGED <<editor, view, store, pc, key, ans, io, start>>

\* _prompt: backspace, buf = buf[:-1]
PromptErase ==
    /\ pc = "prompt"
    /\ buf' = IF buf = <<>> THEN <<>> ELSE Take(buf, Len(buf) - 1)
    /\ UNCHANGED <<editor, view, store, pc, key, ans, io, start>>

\* _prompt returns on ESC (None) or Enter (buf)
Returns == {Cancelled, Entered(buf)}

Returned(k, a) ==
    /\ pc = "prompt"
    /\ key = k
    /\ ans' = a
    /\ buf' = <<>>
    /\ UNCHANGED <<view, key>>

FindReturn ==
    \E q \in Returns :
        /\ Returned("CTRL_F", q)
        /\ find(q)
        /\ pc' = "draw"
        /\ UNCHANGED <<store, io>>

GotoReturn ==
    \E s \in Returns :
        /\ Returned("CTRL_G", s)
        /\ goto_line(s)
        /\ pc' = "draw"
        /\ UNCHANGED <<store, io, start>>

\* _confirm_exit that takes every answer but a "y" for a "n"
confirm_exitDefaultNo(a, outcome) ==
    IF StartsWith(a, "y")
    THEN /\ save(outcome)
         /\ pc' = "done"
    ELSE /\ pc' = "done"
         /\ msg' = PromptMsg(a)
         /\ UNCHANGED <<lines, cx, cy, dirty, store, io>>

\* Editor._confirm_exit after its prompt, and the lines of run around it
confirm_exit(a, outcome) ==
    IF StartsWith(a, "y")
    THEN /\ save(outcome)
         /\ pc' = "done"
    ELSE IF StartsWith(a, "n")
    THEN /\ pc' = "done"
         /\ msg' = PromptMsg(a)
         /\ UNCHANGED <<lines, cx, cy, dirty, store, io>>
    ELSE /\ pc' = "draw"
         /\ msg' = Status("Exit cancelled")
         /\ UNCHANGED <<lines, cx, cy, dirty, store, io>>

ExitReturn ==
    \E a \in Returns, outcome \in WriteOutcomes :
        /\ Returned("CTRL_X", a)
        /\ confirm_exit(a, outcome)
        /\ UNCHANGED start

----------------------------------------------------------------------------
(* The editor after Editor.__init__ on a file.                             *)

Loaded(d) ==
    /\ disk = d
    /\ lines = LoadedLines(d)
    /\ msg = LoadedMsg(d)
    /\ dirty = FALSE
    /\ loaded_mtime = LoadedMtime(d)
    /\ saved = lines
    /\ cx = 0 /\ cy = 0 /\ rowoff = 0 /\ coloff = 0
    /\ text_h = 0 /\ text_w = 0
    /\ pc = "draw"
    /\ key = "none"
    /\ buf = <<>>
    /\ ans = NoAnswer
    /\ io = "none"
    /\ start = NoStart

PromptKeys == {"CTRL_F", "CTRL_G", "CTRL_X"}

----------------------------------------------------------------------------
(* Spec: the whole of Editor.run on one terminal size. The user types "a"  *)
(* into the buffer; the files bring other text.                            *)

Files == {NoFile, Unreadable, File(<<>>), File(<<"b", "\n", "a">>)}
Rows  == {4}
Cols  == {3}
Chars == {"a"}
Typed == [k \in PromptKeys |->
            IF k = "CTRL_F" THEN {"a"}
            ELSE IF k = "CTRL_G" THEN {"-", "0", "3"} ELSE {"y", "q"}]

Init == \E d \in Files : Loaded(d)

Next ==
    \/ Draw(Rows, Cols)
    \/ KeyCtrlL
    \/ KeyCtrlO
    \/ KeyCtrlX
    \/ KeyCtrlF
    \/ KeyCtrlG
    \/ KeyUp
    \/ KeyDown
    \/ KeyLeft
    \/ KeyRight
    \/ KeyHome
    \/ KeyEnd
    \/ KeyNPage(Rows)
    \/ KeyPPage(Rows)
    \/ KeyEnter
    \/ KeyBackspace
    \/ KeyDC
    \/ KeyChar(Chars)
    \/ KeyOther
    \/ PromptType(Typed, MaxBuf)
    \/ PromptErase
    \/ FindReturn
    \/ GotoReturn
    \/ ExitReturn

Spec == Init /\ [][Next]_vars

----------------------------------------------------------------------------
(* SpecView: moving and editing on a terminal that is resized between      *)
(* frames.                                                                 *)

ViewFiles == {NoFile, File(<<"b", "b", "\n", "b", "\n", "b">>)}
ViewRows  == {2, 4}
ViewCols  == {1, 2, 3}

InitView == \E d \in ViewFiles : Loaded(d)

NextView ==
    \/ Draw(ViewRows, ViewCols)
    \/ KeyUp
    \/ KeyDown
    \/ KeyLeft
    \/ KeyRight
    \/ KeyHome
    \/ KeyEnd
    \/ KeyNPage(ViewRows)
    \/ KeyPPage(ViewRows)
    \/ KeyEnter
    \/ KeyBackspace
    \/ KeyDC
    \/ KeyChar(Chars)

SpecView == InitView /\ [][NextView]_vars

----------------------------------------------------------------------------
(* SpecLoad: every file of up to MaxFile characters, loaded and written    *)
(* back.                                                                   *)

FileChars == {"a", "\n", "\r", "\f"}
LoadFiles == {File(data) : data \in SeqsUpTo(FileChars, MaxFile)}

InitLoad == \E d \in LoadFiles : Loaded(d)

NextLoad ==
    \/ Draw(Rows, Cols)
    \/ KeyCtrlO

SpecLoad == InitLoad /\ [][NextLoad]_vars

----------------------------------------------------------------------------
(* SpecFind: searches typed over "f" and "o", from every cursor position   *)
(* of three files.                                                         *)

Scenario == << <<"f", "o", "o">>, <<"b", "a", "r">>, <<"f", "o", "o", "b", "a", "r">> >>

FindFiles == {File(Join(Scenario) \o <<"\n">>),
              File(<<"o", "f", "o", "\n", "\n", "o", "o", "f", "o">>),
              File(<<"f", "f", "o", "f">>)}
FindTyped == [k \in PromptKeys |-> {"f", "o"}]

InitFind == \E d \in FindFiles : Loaded(d)

NextFind ==
    \/ Draw(Rows, Cols)
    \/ KeyUp
    \/ KeyDown
    \/ KeyLeft
    \/ KeyRight
    \/ KeyCtrlF
    \/ PromptType(FindTyped, MaxQuery)
    \/ PromptErase
    \/ FindReturn

SpecFind == InitFind /\ [][NextFind]_vars

----------------------------------------------------------------------------
(* SpecGoto: line numbers typed over "-", "0", "3" and the blank, from     *)
(* every cursor position of three files.                                   *)

GotoFiles == {NoFile,
              File(<<"b", "b", "\n", "\n", "b">>),
              File(<<"\n", "b", "\n", "b", "b", "b", "\n", "b", "\n">>)}
GotoTyped == [k \in PromptKeys |-> {"-", "0", "3", " "}]

InitGoto == \E d \in GotoFiles : Loaded(d)

NextGoto ==
    \/ Draw(Rows, Cols)
    \/ KeyUp
    \/ KeyDown
    \/ KeyLeft
    \/ KeyRight
    \/ KeyCtrlG
    \/ PromptType(GotoTyped, MaxNumber)
    \/ PromptErase
    \/ GotoReturn

SpecGoto == InitGoto /\ [][NextGoto]_vars

----------------------------------------------------------------------------
(* SpecExit: Ctrl+X on clean and edited buffers, the confirmation typed    *)
(* over "y", "Y", "n", "N" and "q".                                        *)

ExitFiles == {NoFile, File(<<"b">>)}
ExitTyped == [k \in PromptKeys |-> {"y", "Y", "n", "N", "q"}]

InitExit == \E d \in ExitFiles : Loaded(d)

NextExit ==
    \/ Draw(Rows, Cols)
    \/ KeyRight
    \/ KeyChar(Chars)
    \/ KeyBackspace
    \/ KeyCtrlO
    \/ KeyCtrlX
    \/ PromptType(ExitTyped, MaxAnswer)
    \/ PromptErase
    \/ ExitReturn

SpecExit == InitExit /\ [][NextExit]_vars

----------------------------------------------------------------------------
(* SpecSplit: Enter at every cursor position of two files.                 *)

HelloWorld == << <<"h", "e", "l", "l", "o">>, <<"w", "o", "r", "l", "d">> >>

SplitFiles == {File(Join(HelloWorld)), File(<<"b", "\n", "\n", "a", "b">>)}

InitSplit == \E d \in SplitFiles : Loaded(d)

NextSplit ==
    \/ Draw(Rows, Cols)
    \/ KeyUp
    \/ KeyDown
    \/ KeyLeft
    \/ KeyRight
    \/ KeyEnterUpTo(MaxLines)

SpecSplit == InitSplit /\ [][NextSplit]_vars

----------------------------------------------------------------------------
(* SpecScroll: a file of 26 lines on a terminal that is resized between    *)
(* a text height of 10 and of 1, the cursor moved by keys and by line      *)
(* numbers typed over "2" and "6".                                         *)

RECURSIVE Repeat(_, _)
Repeat(c, n) == IF n = 0 THEN <<>> ELSE <<c>> \o Repeat(c, n - 1)

ScrollFiles == {File(Repeat("\n", 25) \o <<"b", "b", "b">>)}
ScrollRows  == {3, 12}
ScrollCols  == {2, 3}
ScrollTyped == [k \in PromptKeys |-> {"2", "6"}]

InitScroll == \E d \in ScrollFiles : Loaded(d)

NextScroll ==
    \/ Draw(ScrollRows, ScrollCols)
    \/ KeyUp
    \/ KeyDown
    \/ KeyLeft
    \/ KeyRight
    \/ KeyNPage(ScrollRows)
    \/ KeyPPage(ScrollRows)
    \/ KeyCtrlG
    \/ PromptType(ScrollTyped, MaxNumber)
    \/ PromptErase
    \/ GotoReturn

SpecScroll == InitScroll /\ [][NextScroll]_vars

----------------------------------------------------------------------------
(* SpecEdit: the four editing keys at every cursor position of a file of   *)
(* two lines and of the buffers made of it.                                *)

EditFiles == {File(<<"b", "\n", "b">>)}

InitEdit == \E d \in EditFiles : Loaded(d)

NextEdit ==
    \/ Draw(Rows, Cols)
    \/ KeyUp
    \/ KeyDown
    \/ KeyLeft
    \/ KeyRight
    \/ KeyEnterUpTo(MaxLines)
    \/ KeyCharUpTo(Chars, MaxText)
    \/ KeyBackspace
    \/ KeyDC

SpecEdit == InitEdit /\ [][NextEdit]_vars

----------------------------------------------------------------------------
(* Properties.                                                             *)

WriteFailed(o) == o \in {"open_failed", "write_failed"}

\* C1: the buffer holds at least one line in every state reached from the
\* load of a missing, unreadable, empty or non-empty file by any keys.
NonEmptyBuffer == Len(lines) >= 1

\* C1 witness: backspace or delete has emptied the buffer down to one
\* empty line.
NonEmptyBufferWitness ==
    /\ pc = "draw"
    /\ key \in {"KEY_BACKSPACE", "KEY_DC"}
    /\ lines = << <<>> >>
    /\ dirty

\* C2: after every operation, and before the next draw clamps anything,
\* 0 <= cy < len(lines) and 0 <= cx <= len(lines[cy]).
CursorInBounds ==
    /\ 0 <= cy /\ cy < Len(lines)
    /\ 0 <= cx /\ cx <= Len(Line(cy))

\* C2 witness: a line number beyond the last line was entered and the
\* cursor stands on the last line, not yet clamped by a draw.
CursorInBoundsWitness ==
    /\ pc = "draw"
    /\ key = "CTRL_G"
    /\ ans = Entered(<<"3">>)
    /\ Len(lines) < 3
    /\ cy = Len(lines) - 1

\* C3 as stated: dirty is true if and only if the buffer differs from the
\* content at the last successful load or save.
DirtyIffDiffers == dirty <=> (lines # saved)

\* C3 amended: whenever the buffer differs from the content at the last
\* successful load or save, dirty is true.
DirtyIfDiffers == (lines # saved) => dirty

\* C3 witness: a write failed and left an edited buffer flagged dirty.
DirtyIfDiffersWitness ==
    /\ pc = "draw"
    /\ WriteFailed(io)
    /\ lines # saved
    /\ dirty

\* C4: after the scroll step of a frame of height text_h >= 1 and width
\* text_w >= 1, both offsets are non-negative and the cursor lies in
\* [rowoff, rowoff + text_h) x [coloff, coloff + text_w).
ViewportHoldsCursor ==
    (pc = "getch" /\ text_h >= 1 /\ text_w >= 1) =>
        /\ rowoff >= 0 /\ coloff >= 0
        /\ rowoff <= cy /\ cy < rowoff + text_h
        /\ coloff <= cx /\ cx < coloff + text_w

\* C4 witness: a frame that scrolled down and right, the cursor in its
\* last row and last column.
ViewportHoldsCursorWitness ==
    /\ pc = "getch"
    /\ text_w >= 1
    /\ rowoff > 0 /\ coloff > 0
    /\ cy = rowoff + text_h - 1
    /\ cx = coloff + text_w - 1

\* C5 as stated: when a save fails, lines, cursor and dirty flag are as
\* before, the status message reports the write error, and run goes on
\* reading keys.
FailedSaveKeepsState ==
    [][(io = "none" /\ WriteFailed(io')) =>
          /\ lines' = lines /\ cx' = cx /\ cy' = cy /\ dirty' = dirty
          /\ msg' = Status("Write error")
          /\ pc' # "done"]_vars

\* the file a round trip is expected to write: the content, ended by one
\* newline when it does not end with one
Normalized(data) ==
    IF data # <<>> /\ data[Len(data)] = "\n" THEN data ELSE data \o <<"\n">>

\* C6 as stated: a file that is loaded and saved at once, without edits,
\* is written back as it was but for the normalized trailing newline.
RoundTrip ==
    [][(pc = "getch" /\ msg = Status("Opened") /\ ~dirty /\ io' = "ok") =>
          disk'.data = Normalized(disk.data)]_vars

\* the places where q occurs in a line, in (row, column) order
Occurs(q, y, x) ==
    /\ x + Len(q) <= Len(Line(y))
    /\ SubSeq(Line(y), x + 1, x + Len(q)) = q

Matches(q) ==
    UNION {{<<y, x>> : x \in {c \in 0..Len(Line(y)) : Occurs(q, y, c)}} :
              y \in 0..(Len(lines) - 1)}

First(S) ==
    CHOOSE p \in S : \A o \in S : p[1] < o[1] \/ (p[1] = o[1] /\ p[2] <= o[2])

\* C7: a non-empty query moves the cursor to its first occurrence at or
\* after the cursor; failing that, to its first occurrence in rows 0..cy;
\* status "Found" in both cases. With no occurrence the status is
\* "Not found" and the cursor stays. Buffer and dirty flag never change.
FindTwoPass ==
    [][(pc = "prompt" /\ key = "CTRL_F" /\ ans'.ret = "text" /\ ans'.text # <<>>) =>
          LET all   == Matches(ans'.text)
              ahead == {p \in all : (p[1] = cy /\ p[2] >= cx) \/ p[1] > cy}
              upto  == {p \in all : p[1] <= cy}
          IN  /\ lines' = lines /\ dirty' = dirty
              /\ IF ahead # {}
                 THEN <<cy', cx'>> = First(ahead) /\ msg' = Status("Found")
                 ELSE IF upto # {}
                 THEN <<cy', cx'>> = First(upto) /\ msg' = Status("Found")
                 ELSE cy' = cy /\ cx' = cx /\ msg' = Status("Not found")]_vars

\* C7 witness: a search that wrapped around, found before where it started.
FindTwoPassWitness ==
    /\ pc = "draw"
    /\ key = "CTRL_F"
    /\ ans.ret = "text"
    /\ msg = Status("Found")
    /\ cy < start[1] \/ (cy = start[1] /\ cx < start[2])

\* find("foo") from (1, 1) in the buffer "foo", "bar", "foobar" has returned
FooFromBar ==
    /\ pc = "draw"
    /\ key = "CTRL_F"
    /\ lines = Scenario
    /\ ans = Entered(<<"f", "o", "o">>)
    /\ start = <<1, 1>>

\* C8 as stated: in the buffer "foo", "bar", "foobar" with the cursor at
\* (1, 1), find("foo") ends with status "Found" and the cursor at (0, 0).
FooFoundAtTop == FooFromBar => (msg = Status("Found") /\ cy = 0 /\ cx = 0)

\* C8 amended: in that buffer with the cursor at (1, 1), find("foo") ends
\* with status "Found" and the cursor at (2, 0), the "foo" of "foobar",
\* found by the forward pass.
FooFoundBelow == FooFromBar => (msg = Status("Found") /\ cy = 2 /\ cx = 0)

\* C8 witness: that search has run.
FooFoundBelowWitness == FooFromBar /\ cy = 2

\* C9: an input that parses as the integer n puts the cursor on row
\* min(last row, max(1, n) - 1), in column min(old column, length of that
\* line), changes neither buffer nor dirty flag and is not reported as an
\* error.
GotoTarget ==
    [][(pc = "prompt" /\ key = "CTRL_G" /\ ans'.ret = "text" /\ int(ans'.text).ok) =>
          LET n   == int(ans'.text).val
              row == Min(Len(lines) - 1, Max(1, n) - 1)
          IN  /\ cy' = row
              /\ cx' = Min(cx, Len(Line(row)))
              /\ lines' = lines /\ dirty' = dirty
              /\ msg'.text = "Line"]_vars

\* C9 witness: "-3" was entered in a buffer of several lines and the cursor
\* stands on row 0, at the end of that line.
GotoTargetWitness ==
    /\ pc = "draw"
    /\ key = "CTRL_G"
    /\ ans = Entered(<<"-", "3">>)
    /\ cy = 0
    /\ cx = Len(Line(0))
    /\ Len(lines) > 1

\* C10 as stated: after a goto-line whose input parses, the line number in
\* the status message is the cursor row + 1.
GotoStatusIsRow ==
    (pc = "draw" /\ key = "CTRL_G" /\ msg.text = "Line") => msg.n = cy + 1

\* C11: a non-empty input to the goto-line prompt that int() rejects sets
\* the status "Invalid number" and leaves cursor, buffer, offsets and dirty
\* flag as they were.
GotoInvalid ==
    [][(pc = "prompt" /\ key = "CTRL_G" /\ ans'.ret = "text" /\ ans'.text # <<>>
            /\ ~int(ans'.text).ok) =>
          /\ msg' = Status("Invalid number")
          /\ UNCHANGED <<cx, cy, lines, rowoff, coloff, dirty>>]_vars

\* C11 witness: "3-" was entered with the cursor below row 0 and right of
\* column 0, and was refused.
GotoInvalidWitness ==
    /\ pc = "draw"
    /\ key = "CTRL_G"
    /\ ans = Entered(<<"3", "-">>)
    /\ msg = Status("Invalid number")
    /\ cy > 0 /\ cx > 0

\* the answer to a prompt begins with one of the characters of S
Begins(a, S) == a.ret = "text" /\ a.text # <<>> /\ a.text[1] \in S

\* C12: Ctrl+X on a clean buffer ends run without a prompt; on a dirty
\* buffer it prompts. An answer beginning with y or Y calls save and ends
\* run; one beginning with n or N ends run without a save; every other
\* answer, cancellation included, keeps run going with buffer, cursor and
\* dirty flag as they were.
ExitDecision ==
    [][/\ (pc = "getch" /\ key' = "CTRL_X") =>
            /\ pc' = (IF dirty THEN "prompt" ELSE "done")
            /\ UNCHANGED <<lines, cx, cy, dirty, disk, io>>
       /\ (pc = "prompt" /\ key = "CTRL_X" /\ ans'.ret # "none") =>
            IF Begins(ans', {"y", "Y"})
            THEN io' \in WriteOutcomes /\ pc' = "done"
            ELSE IF Begins(ans', {"n", "N"})
            THEN io' = "none" /\ disk' = disk /\ pc' = "done"
            ELSE /\ io' = "none" /\ disk' = disk /\ pc' = "draw"
                 /\ UNCHANGED <<lines, cx, cy, dirty>>]_vars

\* C12 witness: the answer "qy" to the confirmation was taken for a refusal
\* to exit, and run goes on with the edited buffer.
ExitDecisionWitness ==
    /\ pc = "draw"
    /\ key = "CTRL_X"
    /\ ans = Entered(<<"q", "y">>)
    /\ msg = Status("Exit cancelled")
    /\ dirty

\* C13: ESC in the search, goto-line or save-confirmation prompt, after
\* any typing, changes nothing but the status message: buffer, cursor,
\* dirty flag, _loaded_mtime, offsets and file stay as they were.
CancelFrame ==
    [][(pc = "prompt" /\ ans' = Cancelled) =>
          UNCHANGED <<lines, cx, cy, dirty, loaded_mtime, rowoff, coloff, disk>>]_vars

\* C13 witness: a search was cancelled with the cursor away from (0, 0) in
\* an edited buffer.
CancelFrameWitness ==
    /\ pc = "draw"
    /\ key = "CTRL_F"
    /\ ans = Cancelled
    /\ msg = Status("Cancelled")
    /\ cy > 0 /\ cx > 0
    /\ dirty

\* C14: backspace at (0, 0) and delete at the end of the last line leave
\* buffer, cursor and dirty flag as they were; anywhere else they change
\* the buffer and set the dirty flag.
DeletionBoundary ==
    [][/\ (pc = "getch" /\ key' = "KEY_BACKSPACE") =>
            IF cy = 0 /\ cx = 0
            THEN UNCHANGED <<lines, cx, cy, dirty>>
            ELSE lines' # lines /\ dirty'
       /\ (pc = "getch" /\ key' = "KEY_DC") =>
            IF cy = Len(lines) - 1 /\ cx = Len(Line(cy))
            THEN UNCHANGED <<lines, cx, cy, dirty>>
            ELSE lines' # lines /\ dirty']_vars

\* C14 witness: delete at the end of the last line of a clean buffer of
\* several lines, which is still clean.
DeletionBoundaryWitness ==
    /\ pc = "draw"
    /\ key = "KEY_DC"
    /\ ~dirty
    /\ Len(lines) > 1
    /\ cy = Len(lines) - 1 /\ cx = Len(Line(cy)) /\ cx > 0

\* C15: Enter at (r, c) leaves the first c characters of line r at row r,
\* puts the rest of it in a new line at row r + 1, keeps every other line
\* and their order, moves the cursor to (r + 1, 0) and sets the dirty flag;
\* "hello", "world" at (0, 5) becomes "hello", "", "world" at (1, 0).
NewlineSplits ==
    [][(pc = "getch" /\ key' = "ENTER") =>
          /\ Len(lines') = Len(lines) + 1
          /\ \A i \in 1..cy : lines'[i] = lines[i]
          /\ lines'[cy + 1] = SubSeq(lines[cy + 1], 1, cx)
          /\ lines'[cy + 2] = SubSeq(lines[cy + 1], cx + 1, Len(lines[cy + 1]))
          /\ \A i \in (cy + 2)..Len(lines) : lines'[i + 1] = lines[i]
          /\ cy' = cy + 1 /\ cx' = 0 /\ dirty'
          /\ (lines = HelloWorld /\ cy = 0 /\ cx = 5) =>
                lines' = <<HelloWorld[1], <<>>, HelloWorld[2]>>]_vars

\* C15 witness: Enter was typed at the end of "hello".
NewlineSplitsWitness ==
    /\ pc = "draw"
    /\ key = "ENTER"
    /\ lines = <<HelloWorld[1], <<>>, HelloWorld[2]>>
    /\ cy = 1 /\ cx = 0
    /\ dirty

\* C16: down on the last row and up on row 0 change nothing; elsewhere the
\* row moves by one and the column becomes the smaller of the column the
\* cursor was in and the length of the line it arrives on. Buffer and
\* dirty flag never change.
VerticalClamp ==
    [][/\ (pc = "getch" /\ key' = "KEY_DOWN") =>
            /\ IF cy = Len(lines) - 1
               THEN cy' = cy /\ cx' = cx
               ELSE cy' = cy + 1 /\ cx' = Min(cx, Len(lines[cy + 2]))
            /\ UNCHANGED <<lines, dirty>>
       /\ (pc = "getch" /\ key' = "KEY_UP") =>
            /\ IF cy = 0
               THEN cy' = cy /\ cx' = cx
               ELSE cy' = cy - 1 /\ cx' = Min(cx, Len(lines[cy]))
            /\ UNCHANGED <<lines, dirty>>]_vars

\* C16 witness: down has arrived at the end of a line shorter than the
\* line above it.
VerticalClampWitness ==
    /\ pc = "draw"
    /\ key = "KEY_DOWN"
    /\ cy > 0
    /\ cx = Len(Line(cy))
    /\ cx > 0
    /\ Len(Line(cy - 1)) > cx

\* C17: the scroll step of a frame of height H >= 1 and width W >= 1
\* leaves an offset alone when the cursor is inside the window on that
\* axis, sets it to the cursor's row (column) when the cursor is above
\* (left of) the window and to row - H + 1 (column - W + 1) when it is
\* below (right of) it, and changes neither buffer nor dirty flag; with
\* H = 10 and offset 0, a cursor on row 25 gives offset 16.
MinimalScroll ==
    [][(pc = "draw" /\ pc' = "getch" /\ text_h' >= 1 /\ text_w' >= 1) =>
          /\ rowoff' = (IF cy < rowoff THEN cy
                        ELSE IF cy >= rowoff + text_h' THEN cy - text_h' + 1
                        ELSE rowoff)
          /\ coloff' = (IF cx < coloff THEN cx
                        ELSE IF cx >= coloff + text_w' THEN cx - text_w' + 1
                        ELSE coloff)
          /\ UNCHANGED <<lines, dirty>>
          /\ (text_h' = 10 /\ rowoff = 0 /\ cy = 25) => rowoff' = 16]_vars

\* C17 witness: a frame of height 10 with the cursor on row 25, the last
\* row of a window that starts at row 16, and scrolled right as well.
MinimalScrollWitness ==
    /\ pc = "getch"
    /\ text_h = 10
    /\ cy = 25
    /\ rowoff = 16
    /\ coloff > 0

\* C18 as stated: Enter on an empty search or goto-line prompt sets a
\* status message, so that the message shown before is replaced, and
\* changes neither buffer nor cursor nor dirty flag.
EmptyAnswerSetsStatus ==
    [][(pc = "prompt" /\ key \in {"CTRL_F", "CTRL_G"} /\ ans' = Entered(<<>>)) =>
          /\ msg' # msg
          /\ UNCHANGED <<lines, cx, cy, dirty>>]_vars

\* C19 as stated: run returns only with the dirty flag false or after the
\* answer n or N to the save confirmation, whatever the keys and whatever
\* the outcome of the writes.
NoEditsLostOnExit == (pc = "done") => (~dirty \/ Begins(ans, {"n", "N"}))

\* the document as one text: the lines joined by "\n"
Flat(ls) == Join(ls)

\* the cursor (y, x) as an offset into that text
RECURSIVE Offset(_, _, _)
Offset(ls, y, x) ==
    IF y = 0 THEN x ELSE Len(Head(ls)) + 1 + Offset(Tail(ls), y - 1, x)

\* a text with c inserted at offset p, and with the character at offset p
\* removed
InsertAt(T, p, c) == SubSeq(T, 1, p) \o <<c>> \o SubSeq(T, p + 1, Len(T))
RemoveAt(T, p) == SubSeq(T, 1, p) \o SubSeq(T, p + 2, Len(T))

\* the lines of a text and the cursors of a buffer
RECURSIVE SplitAtNewlines(_, _)
SplitAtNewlines(T, cur) ==
    IF T = <<>> THEN <<cur>>
    ELSE IF Head(T) = "\n" THEN <<cur>> \o SplitAtNewlines(Tail(T), <<>>)
    ELSE SplitAtNewlines(Tail(T), Append(cur, Head(T)))

Cursors(ls) == UNION {{<<y, x>> : x \in 0..Len(ls[y + 1])} : y \in 0..(Len(ls) - 1)}

\* C20: with T the lines joined by "\n" and p the cursor's offset in T, a
\* typed character c gives T with c inserted at p and offset p + 1, Enter
\* gives T with "\n" inserted at p and offset p + 1, backspace with p > 0
\* gives T without the character at p - 1 and offset p - 1, delete with
\* p < len(T) gives T without the character at p and offset p. T and p
\* determine buffer and cursor, so an insertion followed by backspace
\* restores both.
FlatTextRefinement ==
    [][LET T  == Flat(lines)
           p  == Offset(lines, cy, cx)
           T2 == Flat(lines')
           p2 == Offset(lines', cy', cx')
       IN  /\ (pc = "getch" /\ key' \in Chars) =>
                 T2 = InsertAt(T, p, key') /\ p2 = p + 1
           /\ (pc = "getch" /\ key' = "ENTER") =>
                 T2 = InsertAt(T, p, "\n") /\ p2 = p + 1
           /\ (pc = "getch" /\ key' = "KEY_BACKSPACE" /\ p > 0) =>
                 T2 = RemoveAt(T, p - 1) /\ p2 = p - 1
           /\ (pc = "getch" /\ key' = "KEY_DC" /\ p < Len(T)) =>
                 T2 = RemoveAt(T, p) /\ p2 = p
           /\ SplitAtNewlines(T2, <<>>) = lines'
           /\ <<cy', cx'>> \in Cursors(lines')
           /\ \A c \in Cursors(lines') :
                 Offset(lines', c[1], c[2]) = p2 => c = <<cy', cx'>>]_vars

\* C20 witness: backspace at the start of the second line of "ab", "b"
\* has joined the two, the cursor where they meet.
FlatTextRefinementWitness ==
    /\ pc = "draw"
    /\ key = "KEY_BACKSPACE"
    /\ lines = << <<"a", "b", "b">> >>
    /\ cy = 0 /\ cx = 2
====
